---- MODULE Spec2Model ----
(***************************************************************************)
(* Model of the interaction layer of minsweeper-native-client             *)
(* (src/src/minsweeper/mod.rs, cell.rs, main.rs): the control thread that  *)
(* handles gestures and restarts, the abortable tasks it spawns, the       *)
(* handle registry, the per-cell reveal counters and the autoplay loop.    *)
(* The engine (crate minsweeper_rs) and the solver are collaborators; they *)
(* are modelled by what their interface returns.                           *)
(***************************************************************************)
EXTENDS Integers, Sequences, FiniteSets, TLC

VARIABLES
    size,        \* MinsweeperGame.size: <<width, height>>
    board,       \* engine: gamestate().board, Point -> [cell_type, cell_state]
    status,      \* engine: gamestate().status
    starts,      \* engine: number of start_with_solver calls spawned and not yet run
    pressed,     \* Cell.pressed per point
    hovering,    \* Cell.hovering per point
    force,       \* Cell.force per point
    revealing,   \* Cell.revealing (AtomicI32) per point
    auto,        \* MinsweeperGame.auto
    flag_chord,  \* MinsweeperGame.flag_chord
    hover_chord, \* MinsweeperGame.hover_chord
    handles,     \* MinsweeperGame.handles: the uuids that map to an AbortHandle
    aborted,     \* the uuids whose AbortHandle has had abort() called
    autoing,     \* MinsweeperGame.autoing (AtomicBool)
    tasks,       \* the spawned tasks that have not finished, by id
    ctl          \* position of the control thread inside update()

vars == <<size, board, status, starts, pressed, hovering, force, revealing,
          auto, flag_chord, hover_chord, handles, aborted, autoing, tasks, ctl>>

engineVars == <<board, status, starts>>
cellVars == <<pressed, hovering, force>>
settingVars == <<auto, flag_chord, hover_chord>>

----------------------------------------------------------------------------
(* Bounds *)

\* uuids in use at once (registered, or held by a task that has not finished)
MaxUuid == 2
\* actions in one solver move
MaxMoveLen == 2
\* start_with_solver tasks pending at once
MaxStarts == 1

----------------------------------------------------------------------------
(* Board geometry and the engine's interface *)

Points(sz) == (0 .. sz[1] - 1) \X (0 .. sz[2] - 1)

Abs(n) == IF n < 0 THEN -n ELSE n

neighbours(sz, p) ==
    {q \in Points(sz) : q /= p /\ Abs(q[1] - p[1]) <= 1 /\ Abs(q[2] - p[2]) <= 1}

\* position of a point in the row-major iteration order
Rank(sz, p) == p[2] * sz[1] + p[1]

RECURSIVE InOrder(_, _)
InOrder(sz, S) ==
    IF S = {} THEN <<>>
    ELSE LET m == CHOOSE p \in S : \A q \in S : Rank(sz, p) <= Rank(sz, q)
         IN <<m>> \o InOrder(sz, S \ {m})

Cell(type, n, state) == [cell_type |-> type, n |-> n, cell_state |-> state]

\* CellType::Safe(_)
IsSafe(c) == c.cell_type = "Safe"

UnknownCell == Cell("Unknown", 0, "Unknown")

FreshBoard(sz) == [p \in Points(sz) |-> UnknownCell]

\* status after a safe reveal: the game is won when nothing is left unknown
AfterReveal(b) ==
    IF \E p \in DOMAIN b : b[p].cell_state = "Unknown" THEN "Playing" ELSE "Won"

\* the outcomes <<board, status>> of AsyncMinsweeperGame::left_click(p):
\* rejected when the game is not being played or the cell is flagged; an
\* unknown cell is revealed as a mine or as a number; a revealed number whose
\* flagged neighbours match it reveals its unknown neighbours (chord)
EngineLeftClick(sz, b, st, p) ==
    IF st /= "Playing" \/ b[p].cell_state = "Flagged" THEN {<<b, st>>}
    ELSE IF b[p].cell_state = "Unknown" THEN
        {<<[b EXCEPT ![p] = Cell("Mine", 0, "Revealed")], "Lost">>}
        \cup
        {LET nb == [b EXCEPT ![p] = Cell("Safe", n, "Revealed")]
         IN <<nb, AfterReveal(nb)>> : n \in 0 .. Cardinality(neighbours(sz, p))}
    ELSE
        LET ns == neighbours(sz, p)
            flagged == {q \in ns : b[q].cell_state = "Flagged"}
            open == {q \in ns : b[q].cell_state = "Unknown"}
        IN IF IsSafe(b[p]) /\ b[p].n = Cardinality(flagged) /\ open /= {}
           THEN {<<[q \in DOMAIN b |-> IF q \in open
                        THEN Cell("Mine", 0, "Revealed") ELSE b[q]], "Lost">>}
                \cup
                {LET nb == [q \in DOMAIN b |-> IF q \in open
                                THEN Cell("Safe", n, "Revealed") ELSE b[q]]
                 IN <<nb, AfterReveal(nb)>> : n \in 0 .. 1}
           ELSE {<<b, st>>}

\* the board after AsyncMinsweeperGame::right_click(p): toggles the flag of an
\* unrevealed cell while the game is being played
EngineRightClick(b, st, p) ==
    IF st /= "Playing" THEN b
    ELSE IF b[p].cell_state = "Unknown"
         THEN [b EXCEPT ![p].cell_state = "Flagged"]
    ELSE IF b[p].cell_state = "Flagged"
         THEN [b EXCEPT ![p].cell_state = "Unknown"]
    ELSE b

\* the moves Solver::solve may return for a snapshot (None is always possible):
\* ordered actions on cells the snapshot shows as unknown
SolverActions(b) ==
    {[operation |-> o, point |-> p] :
        o \in {"Reveal", "Flag"}, p \in {q \in DOMAIN b : b[q].cell_state = "Unknown"}}
    \cup
    {[operation |-> "Chord", point |-> p] :
        p \in {q \in DOMAIN b : IsSafe(b[q]) /\ b[q].n > 0}}

SolverMoves(b, st) ==
    IF st /= "Playing" THEN {}
    ELSE {m \in UNION {[1 .. k -> SolverActions(b)] : k \in 1 .. MaxMoveLen} :
            \A i, j \in DOMAIN m : i /= j => m[i].point /= m[j].point}

----------------------------------------------------------------------------
(* Tasks *)

\* pcs of the body wrapped by futures_util::future::abortable
LeftBodyPcs == {"Gamestate", "Flag", "Reveal"}
RightBodyPcs == {"RightClick"}
StepBodyPcs == {"Solve", "Apply"}
\* pcs of auto_task's stream
LoopPcs == {"Start", "Solve", "Apply", "SolveNext", "Sleep", "End", "Clear"}

NewTask(kind, p, fc, rs, chain, uuid, pc) ==
    [kind |-> kind, pc |-> pc, point |-> p, flag_chord |-> fc, revealings |-> rs,
     chain |-> chain, uuid |-> uuid, plan |-> <<>>, calls |-> <<>>,
     res |-> "pending", restarted |-> FALSE]

AddTask(id, rec) == [t \in DOMAIN tasks \cup {id} |-> IF t = id THEN rec ELSE tasks[t]]

DropTask(id) == [t \in DOMAIN tasks \ {id} |-> tasks[t]]

\* Uuid::new_v4(): a uuid that is neither registered nor held by a live task
NoUuid == 0
Uuids == 1 .. MaxUuid
HeldUuids == {tasks[t].uuid : t \in DOMAIN tasks}
FreeUuids == Uuids \ (handles \cup HeldUuids)
NewUuid == CHOOSE u \in FreeUuids : \A v \in FreeUuids : u <= v


\* the id under which a chained task goes on as the autoplay loop
LoopIds == {0 - k : k \in 0 .. MaxUuid}
NewLoopId == CHOOSE i \in LoopIds \ DOMAIN tasks : \A j \in LoopIds \ DOMAIN tasks : i >= j

----------------------------------------------------------------------------
(* The control thread: MinsweeperGame::update and update_cell *)

AnyStatus == TRUE
Playing == status = "Playing"

\* Cell::is_down, for a cell with the given pressed and hovering flags
is_down(p, pr, hv) == (pr[p] /\ hv[p]) \/ revealing[p] > 0

\* Cell::is_armed
is_armedUnforced(p) == is_down(p, pressed, hovering)
is_armed(p) == is_down(p, pressed, hovering) \/ force[p]

\* the cells that receive ForceArmed from p
ForceTargetsWithSelf(p) == neighbours(size, p) \cup {p}
ForceTargetsAll(p) == Points(size) \ {p}
ForceTargets(p) == neighbours(size, p)

\* the tail of update_cell: a button message, or any message on a pressed cell,
\* sends ForceArmed(is_down) to the neighbours of a revealed safe cell
Propagated(p, button, pr, hv, fo) ==
    IF (pr[p] \/ button) /\ IsSafe(board[p])
    THEN [q \in DOMAIN fo |-> IF q \in ForceTargets(p) THEN is_down(p, pr, hv) ELSE fo[q]]
    ELSE fo

\* the cells whose counter left_click acquires
RevealingsOfTarget(p) == {p}
RevealingsWithSelf(p) ==
    IF IsSafe(board[p]) THEN neighbours(size, p) \cup {p} ELSE {p}
Revealings(p) ==
    IF IsSafe(board[p]) THEN neighbours(size, p) ELSE {p}

\* whether left_click chains auto_task: self.auto && !autoing.fetch_or(true)
ChainsAlways == auto
Chains == auto /\ ~autoing

\* MinsweeperGame::left_click: acquire the counters, register the handle,
\* set the running flag when it chains the autoplay loop, spawn the task
left_clickLate(p) ==
    /\ FreeUuids /= {}
    /\ handles' = handles \cup {NewUuid}
    /\ autoing' = (IF auto THEN TRUE ELSE autoing)
    /\ tasks' = AddTask(NewUuid,
                    NewTask("left", p, flag_chord, Revealings(p), Chains,
                            NewUuid, "Gamestate"))
    /\ UNCHANGED revealing
left_clickUnflagged(p) ==
    /\ FreeUuids /= {}
    /\ revealing' = [q \in DOMAIN revealing |->
                        IF q \in Revealings(p) THEN revealing[q] + 1 ELSE revealing[q]]
    /\ handles' = handles \cup {NewUuid}
    /\ tasks' = AddTask(NewUuid,
                    NewTask("left", p, flag_chord, Revealings(p), Chains,
                            NewUuid, "Gamestate"))
    /\ UNCHANGED autoing
left_click(p) ==
    /\ FreeUuids /= {}
    /\ revealing' = [q \in DOMAIN revealing |->
                        IF q \in Revealings(p) THEN revealing[q] + 1 ELSE revealing[q]]
    /\ handles' = handles \cup {NewUuid}
    /\ autoing' = (IF auto THEN TRUE ELSE autoing)
    /\ tasks' = AddTask(NewUuid,
                    NewTask("left", p, flag_chord, Revealings(p), Chains,
                            NewUuid, "Gamestate"))

\* MinsweeperGame::right_click: register the handle, spawn the task
right_clickAcquiring(p) ==
    /\ FreeUuids /= {}
    /\ revealing' = [revealing EXCEPT ![p] = @ + 1]
    /\ handles' = handles \cup {NewUuid}
    /\ tasks' = AddTask(NewUuid,
                    NewTask("right", p, FALSE, {}, FALSE, NewUuid, "RightClick"))
    /\ UNCHANGED autoing
right_click(p) ==
    /\ FreeUuids /= {}
    /\ handles' = handles \cup {NewUuid}
    /\ tasks' = AddTask(NewUuid,
                    NewTask("right", p, FALSE, {}, FALSE, NewUuid, "RightClick"))
    /\ UNCHANGED <<revealing, autoing>>

\* Message::Cell((p, Press(Left)))
Press(p) ==
    /\ ctl = "idle" /\ Playing
    /\ pressed' = [pressed EXCEPT ![p] = TRUE]
    /\ force' = Propagated(p, TRUE, pressed', hovering, force)
    /\ UNCHANGED <<size, engineVars, hovering, revealing, settingVars, handles,
                   aborted, autoing, tasks, ctl>>

\* Message::Cell((p, SelfPress(button))), button Middle or Right
SelfPress(p, button) ==
    /\ ctl = "idle" /\ Playing
    /\ IF button = "Right"
       THEN /\ pressed' = [pressed EXCEPT ![p] = FALSE]
            /\ right_click(p)
            /\ UNCHANGED force
       ELSE /\ pressed' = [pressed EXCEPT ![p] = TRUE]
            /\ force' = Propagated(p, TRUE, pressed', hovering, force)
            /\ UNCHANGED <<revealing, handles, autoing, tasks>>
    /\ UNCHANGED <<size, engineVars, hovering, settingVars, aborted, ctl>>

\* Message::Cell((p, SelfRelease(button)))
SelfReleaseUnpressed(p, button) ==
    /\ ctl = "idle" /\ Playing
    /\ IF button = "Left"
       THEN /\ left_click(p)
            /\ UNCHANGED <<pressed, force>>
       ELSE /\ pressed' = [pressed EXCEPT ![p] = FALSE]
            /\ force' = Propagated(p, TRUE, pressed', hovering, force)
            /\ UNCHANGED <<revealing, handles, autoing, tasks>>
    /\ UNCHANGED <<size, engineVars, hovering, settingVars, aborted, ctl>>
SelfRelease(p, button) ==
    /\ ctl = "idle" /\ Playing
    /\ IF pressed[p] /\ button = "Left"
       THEN /\ left_click(p)
            /\ UNCHANGED <<pressed, force>>
       ELSE /\ pressed' = [pressed EXCEPT ![p] = FALSE]
            /\ force' = Propagated(p, TRUE, pressed', hovering, force)
            /\ UNCHANGED <<revealing, handles, autoing, tasks>>
    /\ UNCHANGED <<size, engineVars, hovering, settingVars, aborted, ctl>>

\* whether Message::Enter launches left_click
EnterLaunchesAnyway(p) == IsSafe(board[p]) /\ board[p].n > 0
EnterLaunches(p) == hover_chord /\ IsSafe(board[p]) /\ board[p].n > 0

\* Message::Cell((p, Enter))
Enter(p) ==
    /\ ctl = "idle" /\ Playing
    /\ hovering' = [hovering EXCEPT ![p] = TRUE]
    /\ IF EnterLaunches(p)
       THEN /\ left_click(p)
            /\ UNCHANGED force
       ELSE /\ force' = Propagated(p, FALSE, pressed, hovering', force)
            /\ UNCHANGED <<revealing, handles, autoing, tasks>>
    /\ UNCHANGED <<size, engineVars, pressed, settingVars, aborted, ctl>>

\* Message::Cell((p, Exit))
Exit(p) ==
    /\ ctl = "idle" /\ Playing
    /\ hovering' = [hovering EXCEPT ![p] = FALSE]
    /\ force' = Propagated(p, FALSE, pressed, hovering', force)
    /\ UNCHANGED <<size, engineVars, pressed, revealing, settingVars, handles,
                   aborted, autoing, tasks, ctl>>

\* update_cell(c, Release(button)) for every cell of a sequence, in order
ReleaseAllFirst(ps, pr, fo) ==
    IF ps = <<>> THEN <<pr, fo>>
    ELSE LET c == Head(ps)
             pr1 == [pr EXCEPT ![c] = FALSE]
         IN <<pr1, Propagated(c, TRUE, pr1, hovering, fo)>>
RECURSIVE ReleaseAll(_, _, _)
ReleaseAll(ps, pr, fo) ==
    IF ps = <<>> THEN <<pr, fo>>
    ELSE LET c == Head(ps)
             pr1 == [pr EXCEPT ![c] = FALSE]
         IN ReleaseAll(Tail(ps), pr1, Propagated(c, TRUE, pr1, hovering, fo))

\* Message::MouseRelease(button)
MouseRelease ==
    /\ ctl = "idle"
    /\ LET r == ReleaseAll(InOrder(size, Points(size)), pressed, force)
       IN pressed' = r[1] /\ force' = r[2]
    /\ UNCHANGED <<size, engineVars, hovering, revealing, settingVars, handles,
                   aborted, autoing, tasks, ctl>>

\* what Message::Restart leaves of the registry after handles.clear()
ClearedOfAborted(h) == h \ aborted
Cleared(h) == {}

\* Message::Restart, first lock: abort every registered handle (the flag of a
\* handle whose task has finished is not observable and is not kept); an autoplay
\* loop that is running keeps the history that a restart was issued meanwhile
RestartAbort ==
    /\ ctl = "idle"
    /\ starts < MaxStarts
    /\ aborted' = aborted \cup (handles \cap HeldUuids)
    /\ tasks' = [t \in DOMAIN tasks |->
                    IF tasks[t].kind = "auto"
                    THEN [tasks[t] EXCEPT !.restarted = TRUE] ELSE tasks[t]]
    /\ ctl' = "clear"
    /\ UNCHANGED <<size, engineVars, cellVars, revealing, settingVars, handles,
                   autoing>>

\* Message::Restart, second lock: clear the registry, spawn start_with_solver
RestartClear ==
    /\ ctl = "clear"
    /\ handles' = Cleared(handles)
    /\ starts' = starts + 1
    /\ ctl' = "idle"
    /\ UNCHANGED <<size, board, status, cellVars, revealing, settingVars, aborted,
                   autoing, tasks>>

\* the task spawned by Message::Restart: game.start_with_solver(solver)
StartWithSolver ==
    /\ starts > 0
    /\ starts' = starts - 1
    /\ board' = FreshBoard(size)
    /\ status' = "Playing"
    /\ UNCHANGED <<size, cellVars, revealing, settingVars, handles, aborted,
                   autoing, tasks, ctl>>

\* impl Drop for MinsweeperGame, run when State::update replaces the session
\* (ChangeSize, ChangeSolver): every registered handle is aborted under one
\* lock; the control thread handles no further message of this session, its
\* tasks go on
dropSilently ==
    /\ ctl = "idle"
    /\ ctl' = "dropped"
    /\ UNCHANGED <<size, engineVars, cellVars, revealing, settingVars, handles,
                   aborted, autoing, tasks>>
drop ==
    /\ ctl = "idle"
    /\ aborted' = aborted \cup (handles \cap HeldUuids)
    /\ ctl' = "dropped"
    /\ UNCHANGED <<size, engineVars, cellVars, revealing, settingVars, handles,
                   autoing, tasks>>

\* set_auto, set_flag_chord, set_hover_chord (main.rs, settings messages)
set_auto(v) ==
    /\ ctl = "idle" /\ auto' = v
    /\ UNCHANGED <<size, engineVars, cellVars, revealing, flag_chord, hover_chord,
                   handles, aborted, autoing, tasks, ctl>>

set_flag_chord(v) ==
    /\ ctl = "idle" /\ flag_chord' = v
    /\ UNCHANGED <<size, engineVars, cellVars, revealing, auto, hover_chord,
                   handles, aborted, autoing, tasks, ctl>>

set_hover_chord(v) ==
    /\ ctl = "idle" /\ hover_chord' = v
    /\ UNCHANGED <<size, engineVars, cellVars, revealing, auto, flag_chord,
                   handles, aborted, autoing, tasks, ctl>>

----------------------------------------------------------------------------
(* The spawned tasks *)

Call(op, p) == [operation |-> op, point |-> p]

RECURSIVE FlagCalls(_)
FlagCalls(ps) == IF ps = <<>> THEN <<>> ELSE <<Call("Flag", Head(ps))>> \o FlagCalls(Tail(ps))

\* the flag-chord pre-pass of the async fn left_click for snapshot b: when the
\* number of p equals its count of neighbours of type Unknown, one flag call
\* per neighbour of state Unknown
FlagPlanByState(b, p, fc) ==
    IF /\ fc
       /\ IsSafe(b[p])
       /\ b[p].n = Cardinality({q \in neighbours(size, p) : b[q].cell_state = "Unknown"})
    THEN FlagCalls(InOrder(size, {q \in neighbours(size, p) : b[q].cell_state = "Unknown"}))
    ELSE <<>>
FlagPlanWhateverSetting(b, p, fc) ==
    IF /\ IsSafe(b[p])
       /\ b[p].n = Cardinality({q \in neighbours(size, p) : b[q].cell_type = "Unknown"})
    THEN FlagCalls(InOrder(size, {q \in neighbours(size, p) : b[q].cell_state = "Unknown"}))
    ELSE <<>>
FlagPlanAnyNumber(b, p, fc) ==
    IF fc /\ IsSafe(b[p])
    THEN FlagCalls(InOrder(size, {q \in neighbours(size, p) : b[q].cell_state = "Unknown"}))
    ELSE <<>>
FlagPlan(b, p, fc) ==
    IF /\ fc
       /\ IsSafe(b[p])
       /\ b[p].n = Cardinality({q \in neighbours(size, p) : b[q].cell_type = "Unknown"})
    THEN FlagCalls(InOrder(size, {q \in neighbours(size, p) : b[q].cell_state = "Unknown"}))
    ELSE <<>>

Live(t) == tasks[t].uuid \notin aborted

\* async fn left_click: game.gamestate().await and the flag-chord decision
LeftGamestate(t) ==
    /\ tasks[t].pc = "Gamestate" /\ Live(t)
    /\ LET plan == FlagPlan(board, tasks[t].point, tasks[t].flag_chord)
       IN tasks' = [tasks EXCEPT ![t].plan = plan,
                                 ![t].pc = IF plan = <<>> THEN "Reveal" ELSE "Flag"]
    /\ UNCHANGED <<size, engineVars, cellVars, revealing, settingVars, handles,
                   aborted, autoing, ctl>>

\* async fn left_click: right_click(game, point).await for the next neighbour
LeftFlag(t) ==
    /\ tasks[t].pc = "Flag" /\ Live(t)
    /\ board' = EngineRightClick(board, status, Head(tasks[t].plan).point)
    /\ tasks' = [tasks EXCEPT ![t].calls = Append(@, Head(tasks[t].plan)),
                              ![t].plan = Tail(@),
                              ![t].pc = IF Tail(tasks[t].plan) = <<>> THEN "Reveal" ELSE "Flag"]
    /\ UNCHANGED <<size, status, starts, cellVars, revealing, settingVars, handles,
                   aborted, autoing, ctl>>

\* async fn left_click: game.left_click(point).await, the body returns
LeftReveal(t) ==
    /\ tasks[t].pc = "Reveal" /\ Live(t)
    /\ \E out \in EngineLeftClick(size, board, status, tasks[t].point) :
          board' = out[1] /\ status' = out[2]
    /\ tasks' = [tasks EXCEPT ![t].calls = Append(@, Call("Reveal", tasks[t].point)),
                              ![t].res = "ok",
                              ![t].pc = "Release"]
    /\ UNCHANGED <<size, starts, cellVars, revealing, settingVars, handles,
                   aborted, autoing, ctl>>

\* the Abortable of a left task resolves to Err(Aborted)
LeftAborted(t) ==
    /\ tasks[t].pc \in LeftBodyPcs /\ ~Live(t)
    /\ tasks' = [tasks EXCEPT ![t].res = "aborted", ![t].pc = "Release"]
    /\ UNCHANGED <<size, engineVars, cellVars, revealing, settingVars, handles,
                   aborted, autoing, ctl>>

\* the counters after the completion handler's fetch_sub loop
AfterReleaseToZero(t) ==
    [q \in DOMAIN revealing |->
        IF q \in tasks[t].revealings THEN 0 ELSE revealing[q]]
AfterReleaseIfOk(t) ==
    [q \in DOMAIN revealing |->
        IF q \in tasks[t].revealings /\ tasks[t].res = "ok"
        THEN revealing[q] - 1 ELSE revealing[q]]
AfterReleaseOfTarget(t) ==
    [q \in DOMAIN revealing |->
        IF q = tasks[t].point /\ q \in tasks[t].revealings
        THEN revealing[q] - 1 ELSE revealing[q]]
AfterRelease(t) ==
    [q \in DOMAIN revealing |->
        IF q \in tasks[t].revealings THEN revealing[q] - 1 ELSE revealing[q]]

\* completion handler of left_click, first part: release the counters
LeftRelease(t) ==
    /\ tasks[t].pc = "Release"
    /\ revealing' = AfterRelease(t)
    /\ tasks' = [tasks EXCEPT ![t].pc = "Remove", ![t].calls = <<>>]
    /\ UNCHANGED <<size, engineVars, cellVars, settingVars, handles, aborted,
                   autoing, ctl>>

\* completion handler of left_click, second part: handles.lock().await and
\* remove(&uuid); a chained task goes on as auto_task in Phase::Start
LeftRemoveOrClear(t) ==
    /\ tasks[t].pc = "Remove"
    /\ handles' = (IF tasks[t].uuid \in handles THEN handles \ {tasks[t].uuid} ELSE {})
    /\ aborted' = aborted \ {tasks[t].uuid}
    /\ tasks' = IF tasks[t].chain
                THEN [i \in (DOMAIN tasks \ {t}) \cup {NewLoopId} |->
                        IF i = NewLoopId
                        THEN NewTask("auto", tasks[t].point, FALSE, {}, FALSE,
                                     NoUuid, "Start")
                        ELSE tasks[i]]
                ELSE DropTask(t)
    /\ UNCHANGED <<size, engineVars, cellVars, revealing, settingVars, autoing, ctl>>
LeftRemoveChainsIfOk(t) ==
    /\ tasks[t].pc = "Remove"
    /\ handles' = handles \ {tasks[t].uuid}
    /\ aborted' = aborted \ {tasks[t].uuid}
    /\ tasks' = IF tasks[t].chain /\ tasks[t].res = "ok"
                THEN [i \in (DOMAIN tasks \ {t}) \cup {NewLoopId} |->
                        IF i = NewLoopId
                        THEN NewTask("auto", tasks[t].point, FALSE, {}, FALSE,
                                     NoUuid, "Start")
                        ELSE tasks[i]]
                ELSE DropTask(t)
    /\ UNCHANGED <<size, engineVars, cellVars, revealing, settingVars, autoing, ctl>>
LeftRemove(t) ==
    /\ tasks[t].pc = "Remove"
    /\ handles' = handles \ {tasks[t].uuid}
    /\ aborted' = aborted \ {tasks[t].uuid}
    /\ tasks' = IF tasks[t].chain
                THEN [i \in (DOMAIN tasks \ {t}) \cup {NewLoopId} |->
                        IF i = NewLoopId
                        THEN NewTask("auto", tasks[t].point, FALSE, {}, FALSE,
                                     NoUuid, "Start")
                        ELSE tasks[i]]
                ELSE DropTask(t)
    /\ UNCHANGED <<size, engineVars, cellVars, revealing, settingVars, autoing, ctl>>

\* async fn right_click: game.right_click(point).await
RightCall(t) ==
    /\ tasks[t].pc = "RightClick" /\ Live(t)
    /\ board' = EngineRightClick(board, status, tasks[t].point)
    /\ tasks' = [tasks EXCEPT ![t].calls = Append(@, Call("Flag", tasks[t].point)),
                              ![t].res = "ok",
                              ![t].pc = "Fin"]
    /\ UNCHANGED <<size, status, starts, cellVars, revealing, settingVars, handles,
                   aborted, autoing, ctl>>

\* the Abortable of a right task resolves to Err(Aborted)
RightAborted(t) ==
    /\ tasks[t].pc \in RightBodyPcs /\ ~Live(t)
    /\ tasks' = [tasks EXCEPT ![t].res = "aborted", ![t].pc = "Fin"]
    /\ UNCHANGED <<size, engineVars, cellVars, revealing, settingVars, handles,
                   aborted, autoing, ctl>>

\* completion handler of right_click: handles.lock().await, get(&uuid) and
\* abort() of the handle found, whose task has finished; the entry stays in
\* the map
RightFin(t) ==
    /\ tasks[t].pc = "Fin"
    /\ aborted' = aborted \ {tasks[t].uuid}
    /\ tasks' = DropTask(t)
    /\ UNCHANGED <<size, engineVars, cellVars, revealing, settingVars, handles,
                   autoing, ctl>>

----------------------------------------------------------------------------
(* auto_task: the stream unfolded from Phase::Start *)

\* the phase that follows a step whose Abortable resolved to res
NextPhaseUnlessFalse(res) == IF res = "false" THEN "End" ELSE "SolveNext"
NextPhaseWhileEnabled(res) == IF res = "true" /\ auto THEN "SolveNext" ELSE "End"
NextPhaseLoops(res) == IF res \in {"true", "false"} THEN "SolveNext" ELSE "End"
NextPhase(res) == IF res = "true" THEN "SolveNext" ELSE "End"

\* a new step: Uuid::new_v4(), abortable(..), handles.lock().await.insert
Register(t) ==
    /\ FreeUuids /= {}
    /\ handles' = handles \cup {NewUuid}
    /\ tasks' = [tasks EXCEPT ![t].uuid = NewUuid, ![t].pc = "Solve",
                              ![t].plan = <<>>, ![t].calls = <<>>,
                              ![t].res = "pending"]
    /\ UNCHANGED <<size, engineVars, cellVars, revealing, settingVars, aborted,
                   autoing, ctl>>

\* Phase::Start: nothing to remove, no sleep, the first step is registered
AutoStart(t) ==
    /\ tasks[t].pc = "Start"
    /\ Register(t)

\* step body: game.gamestate().await, solver.solve(&gamestate)
AutoSolve(t) ==
    /\ tasks[t].pc = "Solve" /\ Live(t)
    /\ \/ tasks' = [tasks EXCEPT ![t].res = "false", ![t].pc = NextPhase("false")]
       \/ \E m \in SolverMoves(board, status) :
             tasks' = [tasks EXCEPT ![t].plan = m, ![t].pc = "Apply"]
    /\ UNCHANGED <<size, engineVars, cellVars, revealing, settingVars, handles,
                   aborted, autoing, ctl>>

\* step body: the next action of the move, left_click(&game, point, false)
\* for Reveal and Chord, right_click(&game, point) for Flag; after the last
\* action the body returns true
AutoApplyFromLast(t) ==
    /\ tasks[t].pc = "Apply" /\ Live(t)
    /\ LET n == Len(tasks[t].plan)
           a == tasks[t].plan[n]
           last == n = 1
       IN /\ IF a.operation = "Flag"
             THEN /\ board' = EngineRightClick(board, status, a.point)
                  /\ UNCHANGED status
             ELSE \E out \in EngineLeftClick(size, board, status, a.point) :
                     board' = out[1] /\ status' = out[2]
          /\ tasks' = [tasks EXCEPT
                ![t].calls = Append(@, Call(IF a.operation = "Flag" THEN "Flag" ELSE "Reveal",
                                            a.point)),
                ![t].plan = SubSeq(@, 1, n - 1),
                ![t].res = IF last THEN "true" ELSE @,
                ![t].pc = IF last THEN NextPhase("true") ELSE "Apply"]
    /\ UNCHANGED <<size, starts, cellVars, revealing, settingVars, handles,
                   aborted, autoing, ctl>>
AutoApply(t) ==
    /\ tasks[t].pc = "Apply" /\ Live(t)
    /\ LET a == Head(tasks[t].plan)
           last == Tail(tasks[t].plan) = <<>>
       IN /\ IF a.operation = "Flag"
             THEN /\ board' = EngineRightClick(board, status, a.point)
                  /\ UNCHANGED status
             ELSE \E out \in EngineLeftClick(size, board, status, a.point) :
                     board' = out[1] /\ status' = out[2]
          /\ tasks' = [tasks EXCEPT
                ![t].calls = Append(@, Call(IF a.operation = "Flag" THEN "Flag" ELSE "Reveal",
                                            a.point)),
                ![t].plan = Tail(@),
                ![t].res = IF last THEN "true" ELSE @,
                ![t].pc = IF last THEN NextPhase("true") ELSE "Apply"]
    /\ UNCHANGED <<size, starts, cellVars, revealing, settingVars, handles,
                   aborted, autoing, ctl>>

\* the Abortable of a step resolves to Err(Aborted)
AutoAborted(t) ==
    /\ tasks[t].pc \in StepBodyPcs /\ ~Live(t)
    /\ tasks' = [tasks EXCEPT ![t].res = "aborted", ![t].pc = NextPhase("aborted")]
    /\ UNCHANGED <<size, engineVars, cellVars, revealing, settingVars, handles,
                   aborted, autoing, ctl>>

\* Phase::SolveNext(uuid): handles.lock().await.remove(&uuid), then the sleep
AutoSolveNextKeeping(t) ==
    /\ tasks[t].pc = "SolveNext"
    /\ tasks' = [tasks EXCEPT ![t].pc = "Sleep", ![t].uuid = NoUuid, ![t].calls = <<>>]
    /\ UNCHANGED <<size, engineVars, cellVars, revealing, settingVars, handles,
                   aborted, autoing, ctl>>
AutoSolveNext(t) ==
    /\ tasks[t].pc = "SolveNext"
    /\ handles' = handles \ {tasks[t].uuid}
    /\ aborted' = aborted \ {tasks[t].uuid}
    /\ tasks' = [tasks EXCEPT ![t].pc = "Sleep", ![t].uuid = NoUuid, ![t].calls = <<>>]
    /\ UNCHANGED <<size, engineVars, cellVars, revealing, settingVars, autoing, ctl>>

\* Phase::SolveNext(uuid): the sleep is over, the next step is registered
AutoWake(t) ==
    /\ tasks[t].pc = "Sleep"
    /\ Register(t)

\* Phase::End(uuid): handles.lock().await.remove(&uuid)
AutoEnd(t) ==
    /\ tasks[t].pc = "End"
    /\ handles' = handles \ {tasks[t].uuid}
    /\ aborted' = aborted \ {tasks[t].uuid}
    /\ tasks' = [tasks EXCEPT ![t].pc = "Clear", ![t].uuid = NoUuid, ![t].calls = <<>>]
    /\ UNCHANGED <<size, engineVars, cellVars, revealing, settingVars, autoing, ctl>>

\* Phase::End(uuid): autoing.store(false), the stream ends
AutoClearKeeping(t) ==
    /\ tasks[t].pc = "Clear"
    /\ tasks' = DropTask(t)
    /\ UNCHANGED <<size, engineVars, cellVars, revealing, settingVars, handles,
                   aborted, autoing, ctl>>
AutoClear(t) ==
    /\ tasks[t].pc = "Clear"
    /\ autoing' = FALSE
    /\ tasks' = DropTask(t)
    /\ UNCHANGED <<size, engineVars, cellVars, revealing, settingVars, handles,
                   aborted, ctl>>

----------------------------------------------------------------------------
(* Specifications *)

Buttons == {"Left", "Middle", "Right"}

\* MinsweeperGame::new for a geometry and settings: no game started, every
\* cell at its defaults, nothing registered
Constructed(sz, au, fc, hc) ==
    /\ size = sz
    /\ board = FreshBoard(sz)
    /\ status = "Never"
    /\ starts = 0
    /\ pressed = [p \in Points(sz) |-> FALSE]
    /\ hovering = [p \in Points(sz) |-> FALSE]
    /\ force = [p \in Points(sz) |-> FALSE]
    /\ revealing = [p \in Points(sz) |-> 0]
    /\ auto = au
    /\ flag_chord = fc
    /\ hover_chord = hc
    /\ handles = {}
    /\ aborted = {}
    /\ autoing = FALSE
    /\ tasks = <<>>
    /\ ctl = "idle"

LeftTask(t) ==
    \/ LeftGamestate(t) \/ LeftFlag(t) \/ LeftReveal(t) \/ LeftAborted(t)
    \/ LeftRelease(t) \/ LeftRemove(t)

RightTask(t) == RightCall(t) \/ RightAborted(t) \/ RightFin(t)

AutoTask(t) ==
    \/ AutoStart(t) \/ AutoSolve(t) \/ AutoApply(t) \/ AutoAborted(t)
    \/ AutoSolveNext(t) \/ AutoWake(t) \/ AutoEnd(t) \/ AutoClear(t)

\* Spec: the registry, the counters and the autoplay loop of a one-cell
\* session: clicks, flags, restarts and the autoplay toggle, every task
Init == Constructed(<<1, 1>>, FALSE, FALSE, FALSE)

Next ==
    \/ \E p \in Points(size) : Press(p)
    \/ \E p \in Points(size) : SelfRelease(p, "Left")
    \/ \E p \in Points(size) : SelfPress(p, "Right")
    \/ MouseRelease
    \/ RestartAbort
    \/ RestartClear
    \/ StartWithSolver
    \/ \E v \in BOOLEAN : set_auto(v)
    \/ \E t \in DOMAIN tasks : LeftTask(t)
    \/ \E t \in DOMAIN tasks : RightTask(t)
    \/ \E t \in DOMAIN tasks : AutoTask(t)

Spec == Init /\ [][Next]_vars

\* the session once the Restart that State::init issues has run: a game
\* being played on a fresh board
Started(sz, au, fc, hc) ==
    /\ size = sz
    /\ board = FreshBoard(sz)
    /\ status = "Playing"
    /\ starts = 0
    /\ pressed = [p \in Points(sz) |-> FALSE]
    /\ hovering = [p \in Points(sz) |-> FALSE]
    /\ force = [p \in Points(sz) |-> FALSE]
    /\ revealing = [p \in Points(sz) |-> 0]
    /\ auto = au
    /\ flag_chord = fc
    /\ hover_chord = hc
    /\ handles = {}
    /\ aborted = {}
    /\ autoing = FALSE
    /\ tasks = <<>>
    /\ ctl = "idle"

\* SpecCounters: clicks, hover-chords and restarts on a row of two cells
InitCounters == Constructed(<<2, 1>>, FALSE, FALSE, TRUE)

NextCounters ==
    \/ \E p \in Points(size) : Press(p)
    \/ \E p \in Points(size) : SelfRelease(p, "Left")
    \/ \E p \in Points(size) : Enter(p)
    \/ RestartAbort
    \/ RestartClear
    \/ StartWithSolver
    \/ \E t \in DOMAIN tasks : LeftTask(t)

SpecCounters == InitCounters /\ [][NextCounters]_vars

\* SpecHover: clicks and hovering on a row of two cells, with the hover-chord
\* toggle
InitHover == Started(<<2, 1>>, FALSE, FALSE, FALSE)

NextHover ==
    \/ \E p \in Points(size) : Press(p)
    \/ \E p \in Points(size) : SelfRelease(p, "Left")
    \/ \E p \in Points(size) : Enter(p)
    \/ \E p \in Points(size) : Exit(p)
    \/ MouseRelease
    \/ \E v \in BOOLEAN : set_hover_chord(v)
    \/ \E t \in DOMAIN tasks : LeftTask(t)

SpecHover == InitHover /\ [][NextHover]_vars

\* SpecChord: clicks and flags on a row of three cells, with the flag-chord
\* toggle, one click in flight at a time (flags overlap it freely)
InitChord == Started(<<3, 1>>, FALSE, TRUE, FALSE)

OneClick == Cardinality({t \in DOMAIN tasks : tasks[t].kind = "left"}) <= 1

NextChord ==
    \/ \E p \in Points(size) : Press(p)
    \/ \E p \in Points(size) : SelfRelease(p, "Left") /\ OneClick'
    \/ \E p \in Points(size) : SelfPress(p, "Right")
    \/ \E v \in BOOLEAN : set_flag_chord(v)
    \/ \E t \in DOMAIN tasks : LeftTask(t)
    \/ \E t \in DOMAIN tasks : RightTask(t)

SpecChord == InitChord /\ [][NextChord]_vars

\* SpecForce: every pointer gesture on a row of three cells, one click in
\* flight at a time
InitForce == Started(<<3, 1>>, FALSE, FALSE, FALSE)

NextForce ==
    /\ \/ \E p \in Points(size) : Press(p)
       \/ \E p \in Points(size) : SelfPress(p, "Middle")
       \/ \E p \in Points(size), b \in Buttons : SelfRelease(p, b)
       \/ \E p \in Points(size) : Enter(p)
       \/ \E p \in Points(size) : Exit(p)
       \/ MouseRelease
       \/ \E t \in DOMAIN tasks : LeftTask(t)
    /\ Cardinality(DOMAIN tasks') <= 1

SpecForce == InitForce /\ [][NextForce]_vars

\* SpecExample: a board of three by three whose middle cell shows 2, its
\* eight neighbours unrevealed, two of them flagged; flag-chord on; clicks on
\* the middle cell, one in flight at a time
Centre == <<1, 1>>

ExampleBoards ==
    {[p \in Points(<<3, 3>>) |->
        IF p = Centre THEN Cell("Safe", 2, "Revealed")
        ELSE IF p \in F THEN Cell("Unknown", 0, "Flagged")
        ELSE UnknownCell] :
     F \in {G \in SUBSET (Points(<<3, 3>>) \ {Centre}) : Cardinality(G) = 2}}

InitExample ==
    /\ size = <<3, 3>>
    /\ board \in ExampleBoards
    /\ status = "Playing"
    /\ starts = 0
    /\ pressed = [p \in Points(<<3, 3>>) |-> FALSE]
    /\ hovering = [p \in Points(<<3, 3>>) |-> FALSE]
    /\ force = [p \in Points(<<3, 3>>) |-> FALSE]
    /\ revealing = [p \in Points(<<3, 3>>) |-> 0]
    /\ auto = FALSE
    /\ flag_chord = TRUE
    /\ hover_chord = FALSE
    /\ handles = {}
    /\ aborted = {}
    /\ autoing = FALSE
    /\ tasks = <<>>
    /\ ctl = "idle"

NextExample ==
    \/ Press(Centre)
    \/ SelfRelease(Centre, "Left") /\ OneClick'
    \/ MouseRelease
    \/ \E t \in DOMAIN tasks : LeftTask(t)

SpecExample == InitExample /\ [][NextExample]_vars

\* SpecLive: clicks, one in flight at a time, restarts and the autoplay loop
\* on one cell, with autoplay on. The runtime polls every spawned task that
\* can go on (weak fairness of the click and loop steps), and the solver
\* does not return a move for ever (strong fairness of the step whose solve
\* returns None)
InitLive == Constructed(<<1, 1>>, TRUE, FALSE, FALSE)

NextLive ==
    \/ \E p \in Points(size) : Press(p)
    \/ \E p \in Points(size) : SelfRelease(p, "Left") /\ OneClick'
    \/ RestartAbort
    \/ RestartClear
    \/ StartWithSolver
    \/ \E t \in DOMAIN tasks : LeftTask(t)
    \/ \E t \in DOMAIN tasks : AutoTask(t)

SolveReturnsNone == \E t \in DOMAIN tasks : AutoSolve(t) /\ tasks'[t].res = "false"

SpecLive ==
    /\ InitLive /\ [][NextLive]_vars
    /\ WF_vars(\E t \in DOMAIN tasks : LeftTask(t))
    /\ WF_vars(\E t \in DOMAIN tasks : AutoTask(t))
    /\ SF_vars(SolveReturnsNone)

\* SpecDrop: clicks, flags and the autoplay loop on a row of two cells, one
\* click in flight at a time, until the session is dropped, and the tasks
\* that outlive it
InitDrop == Started(<<2, 1>>, TRUE, FALSE, FALSE)

NextDrop ==
    \/ \E p \in Points(size) : Press(p)
    \/ \E p \in Points(size) : SelfRelease(p, "Left") /\ OneClick'
    \/ \E p \in Points(size) : SelfPress(p, "Right")
    \/ drop
    \/ \E t \in DOMAIN tasks : LeftTask(t)
    \/ \E t \in DOMAIN tasks : RightTask(t)
    \/ \E t \in DOMAIN tasks : AutoTask(t)

SpecDrop == InitDrop /\ [][NextDrop]_vars

\* SpecAuto: autoplay on a row of two cells with flag-chord on: clicks, one
\* in flight at a time, and the loop they chain
InitAuto == Started(<<2, 1>>, TRUE, TRUE, FALSE)

NextAuto ==
    \/ \E p \in Points(size) : Press(p)
    \/ \E p \in Points(size) : SelfRelease(p, "Left") /\ OneClick'
    \/ \E t \in DOMAIN tasks : LeftTask(t)
    \/ \E t \in DOMAIN tasks : AutoTask(t)

SpecAuto == InitAuto /\ [][NextAuto]_vars

----------------------------------------------------------------------------
(* Reveal counters *)

\* the click tasks that acquired c and whose completion handler has not yet
\* released it
Outstanding(c) ==
    {t \in DOMAIN tasks : /\ tasks[t].kind = "left"
                          /\ tasks[t].pc \in LeftBodyPcs \cup {"Release"}
                          /\ c \in tasks[t].revealings}

\* C1: the reveal counter of every cell is never negative, and it is 0
\* whenever no operation that acquired the cell is still outstanding, under
\* every interleaving of left-releases, hover-chords, completions and restarts
C1_CounterReturnsToZero ==
    \A c \in Points(size) :
        /\ revealing[c] >= 0
        /\ Outstanding(c) = {} => revealing[c] = 0

\* a cancelled click has released a cell and left its counter at 0
C1_Witness ==
    \E t \in DOMAIN tasks : \E c \in tasks[t].revealings :
        /\ tasks[t].pc = "Remove"
        /\ tasks[t].res = "aborted"
        /\ Outstanding(c) = {}
        /\ revealing[c] = 0

----------------------------------------------------------------------------
(* The registry *)

\* C2: the step that ends Message::Restart leaves the registry empty, whatever
\* was registered before and whatever the tasks did between its two locks
C2_RestartEmptiesRegistry ==
    [][(ctl = "clear" /\ ctl' = "idle") => handles' = {}]_vars

\* a restart has emptied the registry while two tasks it cancelled are still
\* unwinding
C2_Witness ==
    /\ ctl = "idle"
    /\ handles = {}
    /\ Cardinality({t \in DOMAIN tasks : tasks[t].uuid \in aborted}) = 2

\* C3: once every launched operation has finished, the registry holds no token
\* (each token was removed by its completion handler or by a restart)
C3_RegistryDrains ==
    (tasks = <<>> /\ ctl = "idle") => handles = {}

----------------------------------------------------------------------------
(* Flag-chord *)

\* the neighbours of p that are neither revealed nor flagged in snapshot b
UnknownNeighbours(b, p) == {q \in neighbours(size, p) : b[q].cell_state = "Unknown"}

\* the neighbours of p that are not revealed in snapshot b, flagged or not
UnrevealedNeighbours(b, p) == {q \in neighbours(size, p) : b[q].cell_type = "Unknown"}

Numbered(b, p) == IsSafe(b[p]) /\ b[p].n > 0

\* the step in which click t reads its snapshot and decides on the pre-pass
ChordDecides(t) ==
    /\ tasks[t].kind = "left" /\ tasks[t].pc = "Gamestate"
    /\ t \in DOMAIN tasks' /\ tasks'[t].pc \in {"Flag", "Reveal"}

\* click t issues the flag calls it planned one at a time, in order, and
\* goes on to the reveal call after the last
FlagsInSequence(t) ==
    /\ tasks[t].pc = "Flag" => tasks[t].plan /= <<>>
    /\ (tasks[t].pc = "Flag" /\ t \in DOMAIN tasks' /\ tasks'[t] /= tasks[t]) =>
          \/ tasks'[t].res = "aborted"
          \/ /\ tasks'[t].calls = Append(tasks[t].calls, Head(tasks[t].plan))
             /\ tasks'[t].plan = Tail(tasks[t].plan)
             /\ tasks'[t].pc = IF tasks'[t].plan = <<>> THEN "Reveal" ELSE "Flag"

\* click t issues one reveal call on its target, after which its body is over
RevealsOnce(t) ==
    /\ tasks[t].pc = "Reveal" => tasks[t].plan = <<>>
    /\ (tasks[t].pc = "Reveal" /\ t \in DOMAIN tasks' /\ tasks'[t] /= tasks[t]) =>
          \/ tasks'[t].res = "aborted"
          \/ /\ tasks'[t].calls = Append(tasks[t].calls, Call("Reveal", tasks[t].point))
             /\ tasks'[t].pc = "Release"

\* C4 as claimed: with flag-chord enabled, a click on a revealed numbered cell
\* whose number equals its count of unknown (unflagged, unrevealed) neighbours
\* issues one flag call per unknown neighbour
C4_AsClaimed ==
    [][\A t \in DOMAIN tasks :
          (/\ ChordDecides(t) /\ tasks[t].flag_chord
           /\ Numbered(board, tasks[t].point)
           /\ board[tasks[t].point].n
                 = Cardinality(UnknownNeighbours(board, tasks[t].point)))
          => tasks'[t].plan
                 = FlagCalls(InOrder(size, UnknownNeighbours(board, tasks[t].point)))]_vars

\* C4 amended: with flag-chord enabled, a click on a revealed numbered cell
\* whose number equals its count of unrevealed neighbours (unknown or flagged)
\* issues one flag call per unknown neighbour, in sequence, all before the
\* single reveal call on the target, unless it is cancelled first
C4_FlagChordFlagsUnknown ==
    [][\A t \in DOMAIN tasks :
          /\ (/\ ChordDecides(t) /\ tasks[t].flag_chord
              /\ Numbered(board, tasks[t].point)
              /\ board[tasks[t].point].n
                    = Cardinality(UnrevealedNeighbours(board, tasks[t].point)))
             => /\ tasks'[t].plan
                     = FlagCalls(InOrder(size, UnknownNeighbours(board, tasks[t].point)))
                /\ tasks'[t].calls = <<>>
          /\ tasks[t].kind = "left" => FlagsInSequence(t) /\ RevealsOnce(t)]_vars

\* a flag-chord click on the middle cell has flagged both unknown neighbours
\* and then revealed
C4_Witness ==
    \E t \in DOMAIN tasks :
        /\ tasks[t].flag_chord /\ tasks[t].pc = "Release" /\ tasks[t].res = "ok"
        /\ board[tasks[t].point].n = 2
        /\ tasks[t].calls = <<Call("Flag", <<0, 0>>), Call("Flag", <<2, 0>>),
                              Call("Reveal", <<1, 0>>)>>

\* C5 as claimed: a click issues no flag call when flag-chord is disabled, or
\* the target is not a revealed numbered cell, or its number differs from its
\* count of unknown (unflagged, unrevealed) neighbours
C5_AsClaimed ==
    [][\A t \in DOMAIN tasks :
          (/\ ChordDecides(t)
           /\ \/ ~tasks[t].flag_chord
              \/ ~Numbered(board, tasks[t].point)
              \/ board[tasks[t].point].n
                    /= Cardinality(UnknownNeighbours(board, tasks[t].point)))
          => tasks'[t].plan = <<>>]_vars

\* C5 amended: a click issues no flag call and exactly one reveal call when
\* flag-chord is disabled, or the target is not a revealed numbered cell, or
\* its number differs from its count of unrevealed neighbours (unknown or
\* flagged), unless it is cancelled first
C5_NoFlagsOtherwise ==
    [][\A t \in DOMAIN tasks :
          /\ (/\ ChordDecides(t)
              /\ \/ ~tasks[t].flag_chord
                 \/ ~Numbered(board, tasks[t].point)
                 \/ board[tasks[t].point].n
                       /= Cardinality(UnrevealedNeighbours(board, tasks[t].point)))
             => /\ tasks'[t].plan = <<>>
                /\ tasks'[t].calls = <<>>
                /\ tasks'[t].pc = "Reveal"
          /\ tasks[t].kind = "left" => RevealsOnce(t)]_vars

\* a flag-chord click on a numbered cell whose number is not its count of
\* unrevealed neighbours has issued its reveal call alone
C5_Witness ==
    \E t \in DOMAIN tasks :
        /\ tasks[t].flag_chord /\ tasks[t].pc = "Release" /\ tasks[t].res = "ok"
        /\ tasks[t].calls = <<Call("Reveal", tasks[t].point)>>
        /\ Numbered(board, tasks[t].point)
        /\ board[tasks[t].point].n
              /= Cardinality(UnrevealedNeighbours(board, tasks[t].point))
        /\ UnknownNeighbours(board, tasks[t].point) /= {}

----------------------------------------------------------------------------
(* Hover-chord *)

\* what a left-release on the pressed numbered cell p does to the counters,
\* the registry, the running flag and the tasks: the neighbours of p are
\* acquired, a fresh token is registered, and a click on p is spawned whose
\* completion handler releases the neighbours, removes the token and chains
\* the autoplay loop when autoplay is on and not running
LaunchedAsLeftRelease(p) ==
    \E u \in Uuids \ (handles \cup DOMAIN tasks) :
        /\ revealing' = [q \in Points(size) |->
                            IF q \in neighbours(size, p)
                            THEN revealing[q] + 1 ELSE revealing[q]]
        /\ handles' = handles \cup {u}
        /\ autoing' = (autoing \/ auto)
        /\ DOMAIN tasks' = DOMAIN tasks \cup {u}
        /\ \A t \in DOMAIN tasks : tasks'[t] = tasks[t]
        /\ tasks'[u] = [kind |-> "left", pc |-> "Gamestate", point |-> p,
                        flag_chord |-> flag_chord,
                        revealings |-> neighbours(size, p),
                        chain |-> (auto /\ ~autoing), uuid |-> u,
                        plan |-> <<>>, calls |-> <<>>, res |-> "pending",
                        restarted |-> FALSE]

\* C6: with hover-chord enabled, entering a revealed numbered cell acquires
\* the reveal set, registers the token and launches the operation (with its
\* completion handler) exactly as a left-release on that cell, pressed, does
C6_HoverChordLikeLeftRelease ==
    [][\A p \in Points(size) :
          /\ (Enter(p) /\ hover_chord /\ Numbered(board, p))
                => LaunchedAsLeftRelease(p)
          /\ (SelfRelease(p, "Left") /\ pressed[p] /\ Numbered(board, p))
                => LaunchedAsLeftRelease(p)]_vars

\* a click launched by entering a numbered cell that is not pressed, its
\* neighbours acquired
C6_Witness ==
    /\ hover_chord
    /\ \E t \in DOMAIN tasks :
          /\ tasks[t].kind = "left" /\ tasks[t].pc = "Gamestate"
          /\ Numbered(board, tasks[t].point)
          /\ hovering[tasks[t].point] /\ ~pressed[tasks[t].point]
          /\ tasks[t].revealings = neighbours(size, tasks[t].point)
          /\ \A q \in tasks[t].revealings : revealing[q] = 1
          /\ handles = {tasks[t].uuid}

\* C7: with hover-chord disabled, no Enter or Exit launches an operation:
\* the registry, the counters, the tasks and the engine are unchanged by it
C7_HoverLaunchesNothing ==
    [][(~hover_chord /\ \E p \in Points(size) : Enter(p) \/ Exit(p))
          => UNCHANGED <<handles, revealing, tasks, aborted, autoing,
                         engineVars>>]_vars

\* a numbered cell is hovered with hover-chord disabled and nothing was
\* launched
C7_Witness ==
    /\ ~hover_chord
    /\ tasks = <<>> /\ handles = {}
    /\ \E p \in Points(size) :
          hovering[p] /\ ~pressed[p] /\ Numbered(board, p)

----------------------------------------------------------------------------
(* Autoplay *)

\* the autoplay loops of the session: chained to a click that is running, or
\* in a phase of auto_task
Loops == {t \in DOMAIN tasks : tasks[t].chain \/ tasks[t].kind = "auto"}

\* C8: at most one autoplay loop exists at any time, and exactly one while
\* the running flag is set: a click launched while the flag is set chains no
\* second loop, so one Start phase is run per interval in which the flag is
\* true
C8_OneLoopWhileRunning ==
    /\ Cardinality(Loops) <= 1
    /\ autoing => Cardinality(Loops) = 1
    /\ Cardinality({t \in DOMAIN tasks : tasks[t].pc = "Start"}) <= 1

\* with autoplay on, a click is in flight while the loop sleeps between two
\* steps, and it chains nothing
C8_Witness ==
    /\ auto /\ autoing
    /\ \E l, t \in DOMAIN tasks :
          /\ tasks[l].kind = "auto" /\ tasks[l].pc = "Sleep"
          /\ tasks[t].kind = "left" /\ tasks[t].pc = "Gamestate"
          /\ ~tasks[t].chain

\* the step of loop l whose solver returned no move
NoMove(l) == tasks[l].kind = "auto" /\ tasks[l].res = "false"

\* C9: once solve returns no move in a step, the loop goes to End and ends
\* with the running flag false; from that solve call on it does not sleep,
\* reads no snapshot, calls the engine no more and registers no step
C9_NoMoveEndsLoop ==
    [][\A l \in DOMAIN tasks :
          /\ (tasks[l].kind = "auto" /\ tasks[l].pc = "Solve"
              /\ l \in DOMAIN tasks' /\ tasks'[l].res = "false")
                => /\ tasks'[l].pc = "End"
                   /\ tasks'[l].calls = <<>>
                   /\ UNCHANGED <<engineVars, handles, autoing>>
          /\ NoMove(l) => tasks[l].pc \in {"End", "Clear"} /\ autoing
          /\ (NoMove(l) /\ l \in DOMAIN tasks')
                => /\ NoMove(l)'
                   /\ tasks'[l].pc \in {"End", "Clear"}
                   /\ tasks'[l].calls = <<>>
                   /\ tasks'[l].uuid \in {tasks[l].uuid, NoUuid}
          /\ (NoMove(l) /\ l \notin DOMAIN tasks')
                => tasks[l].pc = "Clear" /\ ~autoing']_vars

\* a loop whose solver returned no move has removed its token and is about
\* to clear the running flag
C9_Witness ==
    \E l \in DOMAIN tasks :
        NoMove(l) /\ tasks[l].pc = "Clear" /\ autoing /\ handles = {}

----------------------------------------------------------------------------
(* Force-armed propagation *)

\* C10: when a revealed numbered cell that is hovered becomes pressed, force
\* is set on each of its neighbours and changes on no other cell
C10_ForceOnNeighboursOnly ==
    [][\A p \in Points(size) :
          ((Press(p) \/ SelfPress(p, "Middle")) /\ hovering[p] /\ Numbered(board, p))
             => \A q \in Points(size) :
                   force'[q] = IF q \in neighbours(size, p) THEN TRUE ELSE force[q]]_vars

\* the first cell of the row is numbered, hovered and pressed: its neighbour
\* is forced, the third cell is not
C10_Witness ==
    /\ Numbered(board, <<0, 0>>)
    /\ pressed[<<0, 0>>] /\ hovering[<<0, 0>>]
    /\ force[<<1, 0>>]
    /\ ~force[<<0, 0>>] /\ ~force[<<2, 0>>]

\* the neighbours of p are forced while p, revealed and numbered, is pressed
\* and hovered
ForcedBy(p) ==
    /\ Numbered(board, p)
    /\ pressed[p] /\ hovering[p]
    /\ \A q \in neighbours(size, p) : force[q]

\* C11: once the neighbours of a pressed and hovered numbered cell are
\* forced, a release on that cell (the button released anywhere, or the
\* middle button on the cell) or a hover-exit from it sets force back to
\* false on those neighbours and changes it on no other cell
C11_ReleaseUnforcesNeighbours ==
    [][\A p \in Points(size) :
          (ForcedBy(p) /\ (Exit(p) \/ MouseRelease \/ SelfRelease(p, "Middle")))
             => \A q \in Points(size) :
                   force'[q] = IF q \in neighbours(size, p) THEN FALSE ELSE force[q]]_vars

----------------------------------------------------------------------------
(* The example of the flag-chord section *)

\* C12: on the board of three by three whose middle cell shows 2 with eight
\* unrevealed neighbours, two of them flagged, a left-release on the middle
\* cell with flag-chord on issues no flag call and one reveal call on the
\* middle cell; each neighbour's counter is 1 from the launch until the
\* completion handler releases it and 0 otherwise, the middle cell's stays 0
C12_ExampleChord ==
    /\ revealing[Centre] = 0
    /\ \A q \in neighbours(size, Centre) : revealing[q] = Cardinality(Outstanding(q))
    /\ \A t \in DOMAIN tasks :
          /\ tasks[t].revealings = neighbours(size, Centre)
          /\ tasks[t].pc /= "Flag" /\ tasks[t].plan = <<>>
          /\ tasks[t].pc \in {"Gamestate", "Reveal"} => tasks[t].calls = <<>>
          /\ tasks[t].pc = "Release" => tasks[t].calls = <<Call("Reveal", Centre)>>

\* the click on the middle cell has made its one call and holds the eight
\* neighbours, two of them still flagged
C12_Witness ==
    \E t \in DOMAIN tasks :
        /\ tasks[t].pc = "Release" /\ tasks[t].res = "ok"
        /\ tasks[t].calls = <<Call("Reveal", Centre)>>
        /\ \A q \in neighbours(size, Centre) : revealing[q] = 1
        /\ Cardinality(neighbours(size, Centre)) = 8
        /\ Cardinality({q \in Points(size) : board[q].cell_state = "Flagged"}) = 2

----------------------------------------------------------------------------
(* Restart and the cells *)

\* the step in which Message::Restart returns
RestartReturns == ctl = "clear" /\ ctl' = "idle"

\* C13: when a restart returns every cell has pressed, hovering and force
\* false and its reveal counter 0
C13_RestartResetsCells ==
    [][RestartReturns =>
          \A p \in Points(size) :
              ~pressed'[p] /\ ~hovering'[p] /\ ~force'[p] /\ revealing'[p] = 0]_vars

\* C14: when a restart returns the running flag is false
C14_RestartClearsRunning ==
    [][RestartReturns => ~autoing']_vars

----------------------------------------------------------------------------
(* Completion handlers *)

\* C15: the completion handler of a click runs once however its body ended
\* (engine call accepted, engine call rejected, cancelled by a restart): the
\* body is followed by the release of the whole reveal set, then by the
\* removal of the token, then the click is over
C15_CompletionHandlerAlways ==
    [][\A t \in DOMAIN tasks :
          (tasks[t].kind = "left" /\ (t \notin DOMAIN tasks' \/ tasks'[t] /= tasks[t]))
          => /\ tasks[t].pc \in LeftBodyPcs
                => /\ t \in DOMAIN tasks'
                   /\ tasks'[t].pc \in LeftBodyPcs \cup {"Release"}
                   /\ tasks'[t].pc = "Release" <=> tasks'[t].res /= "pending"
                   /\ revealing' = revealing /\ handles' = handles
             /\ tasks[t].pc = "Release"
                => /\ t \in DOMAIN tasks' /\ tasks'[t].pc = "Remove"
                   /\ \A q \in Points(size) :
                         revealing'[q] = revealing[q]
                                         - (IF q \in tasks[t].revealings THEN 1 ELSE 0)
                   /\ handles' = handles
             /\ tasks[t].pc = "Remove"
                => /\ t \notin DOMAIN tasks'
                   /\ handles' = handles \ {tasks[t].uuid}
                   /\ revealing' = revealing]_vars

\* two clicks have had their handler release the counters, one whose body
\* returned and one cancelled by a restart
C15_Witness ==
    \E t, u \in DOMAIN tasks :
        /\ tasks[t].pc = "Remove" /\ tasks[t].res = "ok"
        /\ tasks[u].pc = "Remove" /\ tasks[u].res = "aborted"
        /\ \A q \in Points(size) : revealing[q] = 0

----------------------------------------------------------------------------
(* The status gate *)

\* C16: while the engine's status is not Playing no step launches a click or
\* a flag toggle: no such task is new, no counter grows, and a token is
\* registered by the autoplay loop only
C16_GatedWhenNotPlaying ==
    [][status /= "Playing" =>
          /\ \A t \in DOMAIN tasks' \ DOMAIN tasks : tasks'[t].kind = "auto"
          /\ \A q \in Points(size) : revealing'[q] <= revealing[q]
          /\ handles' \ handles
                \subseteq {tasks'[l].uuid : l \in {k \in DOMAIN tasks' :
                                                      tasks'[k].kind = "auto"}}]_vars

\* the game is lost, nothing is in flight and the cell is still pressed: the
\* left-release that follows is gated
C16_Witness ==
    /\ status = "Lost"
    /\ tasks = <<>> /\ ctl = "idle"
    /\ \E p \in Points(size) : pressed[p]

----------------------------------------------------------------------------
(* The armed state *)

\* C17: the armed state a cell shows is
\* (pressed /\ hovering) \/ force \/ revealing > 0
C17_ArmedState ==
    \A p \in Points(size) :
        is_armed(p) <=> ((pressed[p] /\ hovering[p]) \/ force[p] \/ revealing[p] > 0)

\* a cell is armed by force alone while another is armed by its counter alone
C17_Witness ==
    \E p, q \in Points(size) :
        /\ force[p] /\ ~pressed[p] /\ revealing[p] = 0 /\ is_armed(p)
        /\ revealing[q] > 0 /\ ~force[q] /\ ~hovering[q] /\ is_armed(q)

----------------------------------------------------------------------------
(* Flag toggles *)

\* C20: when the completion handler of a flag toggle launched by a
\* right-press has run, the toggle's token is not in the registry
C20_RightClickRemovesToken ==
    [][\A t \in DOMAIN tasks :
          (tasks[t].kind = "right" /\ tasks[t].pc = "Fin" /\ t \notin DOMAIN tasks')
          => tasks[t].uuid \notin handles']_vars

----------------------------------------------------------------------------
(* Restart and the tasks *)

\* C18: every token a restart removes from the registry was sent the
\* cancellation signal, whatever registers a token while the restart runs
\* (the signal to a finished task is not observable; the tokens of running
\* tasks are looked at)
C18_ClearedTokensWereCancelled ==
    [][RestartReturns =>
          \A u \in (handles \ handles') \cap HeldUuids : u \in aborted]_vars

\* C19: an autoplay loop that was running when a restart was issued, in any
\* phase, issues no reveal or flag call to the engine afterwards
C19_RestartStopsLoop ==
    [][\A l \in DOMAIN tasks :
          (tasks[l].kind = "auto" /\ tasks[l].restarted /\ l \in DOMAIN tasks')
          => Len(tasks'[l].calls) <= Len(tasks[l].calls)]_vars

----------------------------------------------------------------------------
(* Right-press *)

\* C21: a right-press on a cell leaves the cell's pressed flag false and
\* changes no reveal counter, and no step of the flag toggle it launches
\* (its engine call, its cancellation, its completion handler) changes a
\* counter or a pressed flag
C21_RightPressTouchesNoCounter ==
    [][/\ \A p \in Points(size) :
             SelfPress(p, "Right") => ~pressed'[p] /\ revealing' = revealing
       /\ \A t \in DOMAIN tasks :
             (tasks[t].kind = "right"
              /\ (t \notin DOMAIN tasks' \/ tasks'[t] /= tasks[t]))
                => revealing' = revealing /\ pressed' = pressed]_vars

\* the flag toggle of a right-press has flagged its cell and its completion
\* handler is about to run: the cell is not pressed and every counter is 0
C21_Witness ==
    \E t \in DOMAIN tasks :
        /\ tasks[t].kind = "right" /\ tasks[t].pc = "Fin" /\ tasks[t].res = "ok"
        /\ board[tasks[t].point].cell_state = "Flagged"
        /\ ~pressed[tasks[t].point]
        /\ \A q \in Points(size) : revealing[q] = 0

----------------------------------------------------------------------------
(* Left-release *)

\* C22: a left-release on a cell that is not pressed launches nothing: no
\* counter, token, task, engine state or running flag changes, and the cell
\* stays unpressed
C22_ReleaseUnpressedLaunchesNothing ==
    [][\A p \in Points(size) :
          (SelfRelease(p, "Left") /\ ~pressed[p])
             => /\ UNCHANGED <<revealing, handles, aborted, autoing, tasks,
                               engineVars>>
                /\ ~pressed'[p]]_vars

\* the press began on one cell and the pointer is over another, unpressed,
\* cell with nothing in flight
C22_Witness ==
    \E p, q \in Points(size) :
        /\ p /= q
        /\ pressed[q] /\ ~pressed[p] /\ hovering[p]
        /\ tasks = <<>> /\ handles = {}

----------------------------------------------------------------------------
(* Launch of a click *)

\* C23: the step that launches a click increments the counters of its whole
\* reveal set and registers its token, and the click starts before its first
\* suspension point, no engine call made; so a completion handler about to
\* release finds every counter of its set at 1 or more
C23_AcquiredAndRegisteredAtLaunch ==
    [][/\ \A t \in DOMAIN tasks' \ DOMAIN tasks :
             tasks'[t].kind = "left"
                => /\ tasks'[t].pc = "Gamestate"
                   /\ tasks'[t].calls = <<>> /\ tasks'[t].res = "pending"
                   /\ tasks'[t].uuid \in handles' \ handles
                   /\ \A q \in Points(size) :
                         revealing'[q] = revealing[q]
                                         + (IF q \in tasks'[t].revealings THEN 1 ELSE 0)
                   /\ UNCHANGED engineVars
       /\ \A t \in DOMAIN tasks :
             (tasks[t].kind = "left" /\ tasks[t].pc = "Release")
                => \A q \in tasks[t].revealings : revealing[q] >= 1]_vars

\* two clicks on one cell are launched and neither has run: both tokens are
\* registered and the cell's counter is 2
C23_Witness ==
    \E t, u \in DOMAIN tasks :
        /\ t /= u
        /\ tasks[t].pc = "Gamestate" /\ tasks[u].pc = "Gamestate"
        /\ tasks[t].point = tasks[u].point
        /\ {tasks[t].uuid, tasks[u].uuid} \subseteq handles
        /\ revealing[tasks[t].point] = 2

\* C24: in every state the reveal counter of a cell is the number of launched
\* clicks whose reveal set contains the cell and whose completion handler has
\* not yet released it, and the cell shows armed while that number is not 0
C24_CounterCountsOutstanding ==
    \A c \in Points(size) :
        /\ revealing[c] = Cardinality(Outstanding(c))
        /\ Outstanding(c) /= {} => is_armed(c)

\* of two overlapping clicks one has released the cell and the other has
\* not: the counter is 1 and the cell is still armed
C24_Witness ==
    \E t, u \in DOMAIN tasks : \E c \in Points(size) :
        /\ tasks[t].pc = "Remove" /\ c \in tasks[t].revealings
        /\ Outstanding(c) = {u}
        /\ revealing[c] = 1 /\ is_armed(c)
        /\ ~pressed[c] /\ ~force[c]

\* C25: the reveal set of a click launched by a left-release or a hover-chord
\* is the target alone when the target is unrevealed, and the neighbours of
\* the target, the target excluded, when it is revealed and numbered
C25_RevealSet ==
    [][\A t \in DOMAIN tasks' \ DOMAIN tasks :
          tasks'[t].kind = "left"
             => /\ board[tasks'[t].point].cell_type = "Unknown"
                   => tasks'[t].revealings = {tasks'[t].point}
                /\ Numbered(board, tasks'[t].point)
                   => /\ tasks'[t].revealings = neighbours(size, tasks'[t].point)
                      /\ tasks'[t].point \notin tasks'[t].revealings]_vars

\* a click on an unrevealed cell holds that cell while a click launched by a
\* left-release on a pressed numbered cell holds the cell's neighbours
C25_Witness ==
    \E t, u \in DOMAIN tasks :
        /\ tasks[t].pc = "Gamestate" /\ tasks[u].pc = "Gamestate"
        /\ board[tasks[t].point].cell_type = "Unknown"
        /\ tasks[t].revealings = {tasks[t].point}
        /\ Numbered(board, tasks[u].point) /\ pressed[tasks[u].point]
        /\ tasks[u].revealings = neighbours(size, tasks[u].point)

----------------------------------------------------------------------------
(* The autoplay step *)

\* C26: within a step of the autoplay loop the actions of the move are
\* applied one engine call at a time in the order of the move: for a Reveal
\* or Chord action the one call is a reveal of the action's point, and it
\* toggles no flag even with flag-chord on; for a Flag action the one call
\* is a flag toggle of the action's point
C26_StepAppliesMoveInOrder ==
    [][\A l \in DOMAIN tasks :
          (/\ tasks[l].kind = "auto" /\ tasks[l].pc = "Apply"
           /\ l \in DOMAIN tasks'
           /\ (tasks'[l].plan /= tasks[l].plan \/ tasks'[l].calls /= tasks[l].calls))
             => LET a == Head(tasks[l].plan)
                IN /\ tasks'[l].plan = Tail(tasks[l].plan)
                   /\ tasks'[l].calls =
                         Append(tasks[l].calls,
                                Call(IF a.operation = "Flag" THEN "Flag" ELSE "Reveal",
                                     a.point))
                   /\ a.operation \in {"Reveal", "Chord"}
                         => \A q \in Points(size) :
                               (board'[q].cell_state = "Flagged")
                                  <=> (board[q].cell_state = "Flagged")
                   /\ a.operation = "Flag"
                         => /\ board' = EngineRightClick(board, status, a.point)
                            /\ status' = status
                   /\ tasks'[l].pc = "Apply" <=> Tail(tasks[l].plan) /= <<>>]_vars

\* with flag-chord on, a step has applied a move of two actions, the second
\* a reveal call on a numbered cell whose flag-chord condition holds, and the
\* unrevealed neighbour is not flagged
C26_Witness ==
    /\ flag_chord
    /\ \E l \in DOMAIN tasks :
          /\ tasks[l].kind = "auto" /\ tasks[l].pc = "SolveNext"
          /\ tasks[l].res = "true"
          /\ Len(tasks[l].calls) = 2
          /\ tasks[l].calls[2].operation = "Reveal"
          /\ Numbered(board, tasks[l].calls[2].point)
          /\ FlagPlan(board, tasks[l].calls[2].point, flag_chord) /= <<>>

\* the loop l whose step was cancelled
Cancelled(l) == tasks[l].kind = "auto" /\ tasks[l].res = "aborted"

\* C27: a step of the autoplay loop that is cancelled issues none of the
\* remaining actions of its move, and the loop goes to End without sleeping,
\* removes the step's token from the registry and ends with the running flag
\* false
C27_CancelledStepEndsLoop ==
    [][\A l \in DOMAIN tasks :
          /\ (/\ tasks[l].kind = "auto" /\ tasks[l].pc \in StepBodyPcs /\ ~Live(l)
              /\ l \in DOMAIN tasks' /\ tasks'[l] /= tasks[l])
                => /\ tasks'[l].res = "aborted"
                   /\ tasks'[l].pc = "End"
                   /\ tasks'[l].calls = tasks[l].calls
                   /\ tasks'[l].plan = tasks[l].plan
                   /\ UNCHANGED <<engineVars, handles, autoing>>
          /\ Cancelled(l) => tasks[l].pc \in {"End", "Clear"} /\ autoing
          /\ (Cancelled(l) /\ l \in DOMAIN tasks')
                => /\ Cancelled(l)'
                   /\ tasks'[l].pc \in {"End", "Clear"}
                   /\ Len(tasks'[l].calls) <= Len(tasks[l].calls)
                   /\ (tasks[l].pc = "End" /\ tasks'[l].pc = "Clear")
                         => /\ tasks[l].uuid \notin handles'
                            /\ tasks'[l].uuid = NoUuid
          /\ (Cancelled(l) /\ l \notin DOMAIN tasks')
                => tasks[l].pc = "Clear" /\ ~autoing']_vars

\* a loop cancelled with an action of its move still to apply has removed its
\* token and is about to clear the running flag
C27_Witness ==
    \E l \in DOMAIN tasks :
        /\ Cancelled(l) /\ tasks[l].pc = "Clear"
        /\ tasks[l].plan /= <<>>
        /\ autoing /\ handles = {}

\* C28: a click launched with autoplay on and no loop running chains the
\* loop, and the loop is started, in Phase::Start with no token and no call
\* made, by the step in which the click's completion handler removes the
\* token, after the release of the counters, whatever the outcome of the
\* click; no loop is started otherwise
C28_ChainStartAfterCompletion ==
    [][/\ \A t \in DOMAIN tasks' \ DOMAIN tasks :
             /\ tasks'[t].kind = "left" => (tasks'[t].chain <=> (auto /\ ~autoing))
             /\ tasks'[t].kind = "auto"
                   => \E c \in DOMAIN tasks \ DOMAIN tasks' :
                         tasks[c].chain /\ tasks[c].pc = "Remove"
       /\ \A t \in DOMAIN tasks :
             tasks[t].chain
                => /\ tasks[t].kind = "left"
                   /\ \A l \in DOMAIN tasks : tasks[l].kind /= "auto"
                   /\ t \in DOMAIN tasks' => tasks'[t].chain
                   /\ t \notin DOMAIN tasks'
                         => /\ tasks[t].pc = "Remove"
                            /\ tasks[t].res \in {"ok", "aborted"}
                            /\ revealing' = revealing
                            /\ tasks[t].uuid \notin handles'
                            /\ \E l \in DOMAIN tasks' \ DOMAIN tasks :
                                  /\ tasks'[l].kind = "auto" /\ tasks'[l].pc = "Start"
                                  /\ tasks'[l].uuid = NoUuid
                                  /\ tasks'[l].calls = <<>>]_vars

\* a loop has been chain-started, its first step not yet registered, while a
\* restart is between its two locks: the loop holds no token, the counters
\* are released
C28_Witness ==
    /\ ctl = "clear" /\ autoing
    /\ \E l \in DOMAIN tasks :
          /\ tasks[l].kind = "auto" /\ tasks[l].pc = "Start" /\ ~tasks[l].restarted
          /\ tasks[l].uuid = NoUuid
    /\ \A q \in Points(size) : revealing[q] = 0

----------------------------------------------------------------------------
(* The running flag *)

\* C29 as claimed: the running flag is true only while an instance of the
\* loop has entered Start, and it is true while a loop is between Start and
\* End
C29_AsClaimed ==
    /\ autoing => \E l \in DOMAIN tasks : tasks[l].kind = "auto"
    /\ (\E l \in DOMAIN tasks :
           tasks[l].kind = "auto" /\ tasks[l].pc \notin {"End", "Clear"}) => autoing

\* C29: the running flag is true exactly while a loop is chained to a running
\* click or in a phase of auto_task: it is set by the launch of the click
\* that chains the loop and cleared by the last step of End
C29_RunningWhileChainedOrActive ==
    /\ [](autoing <=> Loops /= {})
    /\ [][/\ (~autoing /\ autoing')
                => \E t \in DOMAIN tasks' \ DOMAIN tasks :
                      tasks'[t].kind = "left" /\ tasks'[t].chain
          /\ (autoing /\ ~autoing')
                => \E l \in DOMAIN tasks \ DOMAIN tasks' :
                      tasks[l].kind = "auto" /\ tasks[l].pc = "Clear"]_vars

\* the running flag is set while the click that chains the loop has not
\* completed and no loop has entered Start
C29_Witness ==
    /\ autoing
    /\ \A l \in DOMAIN tasks : tasks[l].kind /= "auto"
    /\ \E t \in DOMAIN tasks :
          tasks[t].kind = "left" /\ tasks[t].chain /\ tasks[t].pc = "Gamestate"

----------------------------------------------------------------------------
(* The force flag *)

C35_NothingArmedAtRest ==
    (tasks = <<>> /\ \A p \in Points(size) : ~pressed[p])
       => \A p \in Points(size) : ~is_armed(p)

----------------------------------------------------------------------------
(* The global release *)

\* C37: the step that handles Message::MouseRelease leaves every cell
\* unpressed, whatever the status of the game and whichever cells were
\* pressed
C37_MouseReleaseUnpressesAll ==
    [][MouseRelease => \A p \in Points(size) : ~pressed'[p]]_vars

\* the game is lost and no cell is pressed, while a click launched by a
\* left-release on a pressed unrevealed cell has not yet run
C37_Witness ==
    /\ status = "Lost"
    /\ \A p \in Points(size) : ~pressed[p]
    /\ \E t \in DOMAIN tasks :
          /\ tasks[t].kind = "left" /\ tasks[t].pc = "Gamestate"
          /\ board[tasks[t].point].cell_type = "Unknown"

----------------------------------------------------------------------------
(* Removal of a token *)

\* C32: the removal of a token by a completion handler (of a click, or of a
\* step of the autoplay loop) takes that one token out of the registry and
\* no other; when a restart has already cleared the token the registry is
\* left as it is, the tokens registered since by other tasks included
C32_RemoveIsIdempotent ==
    [][\A t \in DOMAIN tasks :
          (\/ tasks[t].kind = "left" /\ tasks[t].pc = "Remove"
              /\ t \notin DOMAIN tasks'
           \/ tasks[t].kind = "auto" /\ tasks[t].pc \in {"SolveNext", "End"}
              /\ t \in DOMAIN tasks' /\ tasks'[t].pc \in {"Sleep", "Clear"})
             => /\ handles' = handles \ {tasks[t].uuid}
                /\ tasks[t].uuid \notin handles => handles' = handles
                /\ \A u \in DOMAIN tasks \ {t} :
                      tasks[u].uuid \in handles => tasks[u].uuid \in handles']_vars

\* the completion handler of a click cancelled by a restart is about to
\* remove its token, which the restart has cleared, while the token of a
\* task launched since is registered
C32_Witness ==
    \E t, u \in DOMAIN tasks :
        /\ t /= u
        /\ tasks[t].kind = "left" /\ tasks[t].pc = "Remove"
        /\ tasks[t].res = "aborted"
        /\ tasks[t].uuid \notin handles
        /\ tasks[u].uuid \in handles
        /\ ctl = "idle"

\* C36: a loop holds at most one token: it has none in Start, during the
\* sleep and when it clears the running flag; the token of a step is out of
\* the registry when the sleep begins, a step is registered only by a loop
\* that holds no token, and the running flag is cleared by a loop that holds
\* none
C36_OneStepToken ==
    [][\A l \in DOMAIN tasks :
          tasks[l].kind = "auto"
             => /\ tasks[l].pc \in {"Start", "Sleep", "Clear"} => tasks[l].uuid = NoUuid
                /\ (l \in DOMAIN tasks' /\ tasks[l].pc \in {"SolveNext", "End"}
                    /\ tasks'[l].pc \in {"Sleep", "Clear"})
                      => /\ tasks[l].uuid \notin handles'
                         /\ tasks'[l].uuid = NoUuid
                /\ (l \in DOMAIN tasks' /\ tasks'[l].uuid /= tasks[l].uuid
                    /\ tasks'[l].uuid /= NoUuid)
                      => /\ tasks[l].uuid = NoUuid
                         /\ tasks[l].pc \in {"Start", "Sleep"}
                         /\ handles' = handles \cup {tasks'[l].uuid}
                         /\ tasks'[l].uuid \notin handles
                /\ l \notin DOMAIN tasks'
                      => tasks[l].pc = "Clear" /\ tasks[l].uuid = NoUuid]_vars

\* a loop sleeps between two steps after a step that applied a move: the
\* registry is empty
C36_Witness ==
    /\ autoing /\ handles = {}
    /\ \E l \in DOMAIN tasks :
          /\ tasks[l].kind = "auto" /\ tasks[l].pc = "Sleep"
          /\ tasks[l].res = "true" /\ tasks[l].uuid = NoUuid
          /\ ~tasks[l].restarted

----------------------------------------------------------------------------
(* Teardown of the session *)

\* C33: the step that drops the session sends the cancellation signal to
\* every task whose token is in the registry at that moment and leaves the
\* registry as it is; a task so cancelled makes no further engine call
C33_DropCancelsRegistered ==
    [][/\ (ctl /= "dropped" /\ ctl' = "dropped")
             => /\ \A u \in handles \cap HeldUuids : u \in aborted'
                /\ handles' = handles
       /\ \A t \in DOMAIN tasks :
             (/\ ctl = "dropped" /\ ~Live(t)
              /\ tasks[t].pc \in LeftBodyPcs \cup RightBodyPcs \cup StepBodyPcs
              /\ t \in DOMAIN tasks' /\ tasks'[t] /= tasks[t])
                => /\ tasks'[t].res = "aborted"
                   /\ tasks'[t].calls = tasks[t].calls
                   /\ UNCHANGED engineVars]_vars

\* the session was dropped while a click and a step of the autoplay loop
\* were registered: both are cancelled
C33_Witness ==
    /\ ctl = "dropped"
    /\ \E t, l \in DOMAIN tasks :
          /\ tasks[t].kind = "left" /\ tasks[t].pc \in LeftBodyPcs
          /\ tasks[l].kind = "auto" /\ tasks[l].pc \in StepBodyPcs
          /\ {tasks[t].uuid, tasks[l].uuid} \subseteq handles \cap aborted

----------------------------------------------------------------------------
(* Termination of the autoplay loop *)

\* C34: whenever the running flag is set it is false again later, the
\* runtime polling every task and the solver not returning a move for ever
C34_RunningFlagEventuallyCleared == autoing ~> ~autoing

\* the game is over, nothing is in flight and the running flag, which the
\* click that made the first reveal had set, is false again
C34_Witness ==
    /\ status \in {"Won", "Lost"}
    /\ auto /\ ~autoing
    /\ tasks = <<>> /\ handles = {}

====
